---- MODULE Spec2Model ----
(***************************************************************************)
(* Attendance ledger of the face recognition attendance system.            *)
(*                                                                         *)
(* The model covers the attendance_v1 table (Backend/database/migrations)  *)
(* and the two ledger operations of Backend/database/queries.ts,           *)
(* recordCheckIn and recordCheckOut.  Each call is a short process: it     *)
(* computes `today` in the server, then awaits one SQL statement (and, for *)
(* recordCheckIn, a second one in the catch block).  Every SQL statement   *)
(* is atomic in the store; calls of different requests interleave between  *)
(* statements.  CURRENT_TIMESTAMP is read by the store when the statement  *)
(* runs, `today` is read by the server when the call starts.               *)
(*                                                                         *)
(* Spec is the ledger on a store that executes every statement; SpecFault  *)
(* adds statements that fail with a storage error and calls with a userId  *)
(* that has no row in users_v1.  SpecStats adds a getAttendanceStats call  *)
(* to the ledger and SpecRecent runs it on a day's table of up to          *)
(* MaxRecentUsers rows.  SpecMatch applies the Face Matcher to a probe and *)
(* a list of enrolled encodings.  SpecHttp is the /checkin, /checkout and  *)
(* /register handlers over the ledger and the users_v1 and face_samples_v1 *)
(* tables, with the Python service as an external process.                 *)
(***************************************************************************)
EXTENDS Integers, FiniteSets, Sequences, TLC

\* ---------------------------------------------------------------- bounds
MaxTime == 2        \* the clock runs over 0..MaxTime
MaxCalls == 3       \* calls started in one behaviour
NumProcs == 2       \* requests in flight at the same time
TicksPerDay == 2    \* clock ticks in one calendar date
MaxRecentUsers == 11 \* users with a row of the day in the tables of SpecRecent
MaxCandidates == 2  \* enrolled encodings handed to one matchFace call

\* ------------------------------------------------------- program constants
NULL == -1          \* check_out_time DATETIME NULL
RecentLimit == 10   \* recentCheckins.slice(0, 10)

Procs == 1..NumProcs
RegisteredIds == {1, 2}         \* ids of rows of users_v1
UnknownId == 3                  \* an id with no row in users_v1
Confidences == {90, 95}         \* confidence scores handed to recordCheckIn
Times == 0..MaxTime

\* new Date().toISOString().split('T')[0]: the calendar date of a timestamp
DateOf(t) == t \div TicksPerDay

VARIABLES
    now,            \* the clock (server and store read the same clock)
    attendance,     \* rows of attendance_v1
    nextId,         \* AUTOINCREMENT counter of attendance_v1
    faults,         \* whether a statement may fail with a storage error
    calls,          \* number of calls started so far
    pc,             \* position of each call
    op,             \* which operation each call is
    userId,         \* argument userId of each call
    confidenceScore,\* argument confidenceScore of each recordCheckIn call
    today,          \* the local `today` of each call
    insertOutcome,  \* what the INSERT of a recordCheckIn call did
    outcome,        \* how the call ended: "ok" (returned) or "error" (threw)
    lastCheckIn,    \* per (user, date): the last completed recordCheckIn
    users,          \* rows of users_v1
    scores,         \* the confidence scores the callers of recordCheckIn pass
    stats,          \* the getAttendanceStats call: its position, locals, result
    probe,          \* argument probeEncoding of the matchFace call
    candidates,     \* argument enrolledEncodings of the matchFace call
    tolerance,      \* argument tolerance of the matchFace call
    matchResult,    \* what the matchFace call returned
    http,           \* the request each slot serves: its position and locals
    response,       \* the response the last step sent, with its request
    samples,        \* rows of face_samples_v1
    page            \* a browser page: the server's stats, what the page shows

vars == <<now, attendance, nextId, faults, calls, pc, op, userId,
          confidenceScore, today, insertOutcome, outcome, lastCheckIn,
          users, scores, stats, probe, candidates, tolerance, matchResult,
          http, response, samples, page>>

callVars == <<pc, op, userId, confidenceScore, today, insertOutcome, outcome>>

\* what the ledger calls leave alone
matchVars == <<probe, candidates, tolerance, matchResult>>

httpVars == <<http, samples>>

otherVars == <<users, scores, stats, matchVars, httpVars, page>>

\* what the getAttendanceStats call leaves alone
statsFrame ==
    <<now, attendance, nextId, faults, callVars, lastCheckIn, users, scores,
      matchVars, httpVars, response, page>>

\* a step that sends no response
Silent == response' = [kind |-> "none"]

Dates == {DateOf(t) : t \in Times}
AllIds == RegisteredIds \cup {UnknownId}
Keys == AllIds \X Dates

\* ------------------------------------------------------------ the table

\* rows of attendance_v1 with the given (user_id, date)
RowsFor(rows, u, d) == {r \in rows : r.user_id = u /\ r.date = d}

\* the table without its UNIQUE(user_id, date) clause
NoUniqueConstraint(rows, u, d) == FALSE

\* UNIQUE(user_id, date): the insert of (u, d) is rejected
UniqueViolation(rows, u, d) == RowsFor(rows, u, d) # {}

\* FOREIGN KEY (user_id) REFERENCES users_v1 (id): the insert is rejected
\* by a store that enforces foreign keys
ForeignKeyViolation(u) == u \notin RegisteredIds

\* an INSERT that also fills check_in_time, with the date instead of the time
InsertRowDateStamp(rows, id, u, d, c, t) ==
    rows \cup {[id |-> id, user_id |-> u, date |-> d,
                check_in_time |-> d * TicksPerDay,
                check_out_time |-> NULL, confidence_score |-> c]}

\* INSERT INTO attendance_v1 (user_id, date, confidence_score) VALUES (?,?,?)
\* check_in_time DEFAULT CURRENT_TIMESTAMP, check_out_time NULL
InsertRow(rows, id, u, d, c, t) ==
    rows \cup {[id |-> id, user_id |-> u, date |-> d, check_in_time |-> t,
                check_out_time |-> NULL, confidence_score |-> c]}

\* an UPDATE that resets the whole row, check_out_time included
UpdateCheckInClearsOut(rows, u, d, c, t) ==
    {IF r.user_id = u /\ r.date = d
        THEN [r EXCEPT !.check_in_time = t, !.confidence_score = c,
                       !.check_out_time = NULL]
        ELSE r : r \in rows}

\* an UPDATE that refreshes check_in_time and forgets confidence_score
UpdateCheckInKeepsConfidence(rows, u, d, c, t) ==
    {IF r.user_id = u /\ r.date = d
        THEN [r EXCEPT !.check_in_time = t]
        ELSE r : r \in rows}

\* a DELETE of the day's row in place of the UPDATE
UpdateCheckInDeletes(rows, u, d, c, t) ==
    {r \in rows : ~(r.user_id = u /\ r.date = d)}

\* UPDATE attendance_v1 SET check_in_time = CURRENT_TIMESTAMP,
\*   confidence_score = ? WHERE user_id = ? AND date = ?
UpdateCheckIn(rows, u, d, c, t) ==
    {IF r.user_id = u /\ r.date = d
        THEN [r EXCEPT !.check_in_time = t, !.confidence_score = c]
        ELSE r : r \in rows}

\* an UPDATE without the check_out_time IS NULL condition
UpdateCheckOutAlways(rows, u, d, t) ==
    {IF r.user_id = u /\ r.date = d
        THEN [r EXCEPT !.check_out_time = t]
        ELSE r : r \in rows}

\* an UPDATE that stamps the date (`today`) instead of CURRENT_TIMESTAMP
UpdateCheckOutDateStamp(rows, u, d, t) ==
    {IF r.user_id = u /\ r.date = d /\ r.check_out_time = NULL
        THEN [r EXCEPT !.check_out_time = d * TicksPerDay]
        ELSE r : r \in rows}

\* an upsert: the check-out creates the day's row when there is none
UpdateCheckOutUpsert(rows, u, d, t) ==
    IF \E r \in rows : r.user_id = u /\ r.date = d
       THEN {IF r.user_id = u /\ r.date = d /\ r.check_out_time = NULL
                THEN [r EXCEPT !.check_out_time = t]
                ELSE r : r \in rows}
       ELSE rows \cup {[id |-> 0, user_id |-> u, date |-> d,
                        check_in_time |-> t, check_out_time |-> t,
                        confidence_score |-> 0]}

\* an UPDATE without the date condition: every open row of the user
UpdateCheckOutAnyDate(rows, u, d, t) ==
    {IF r.user_id = u /\ r.check_out_time = NULL
        THEN [r EXCEPT !.check_out_time = t]
        ELSE r : r \in rows}

\* UPDATE attendance_v1 SET check_out_time = CURRENT_TIMESTAMP
\*   WHERE user_id = ? AND date = ? AND check_out_time IS NULL
UpdateCheckOut(rows, u, d, t) ==
    {IF r.user_id = u /\ r.date = d /\ r.check_out_time = NULL
        THEN [r EXCEPT !.check_out_time = t]
        ELSE r : r \in rows}

\* what the INSERT of recordCheckIn can do in the store
\* (whether the store enforces foreign keys is a setting of the deployment:
\* an unknown user_id is either rejected or stored)
InsertOutcomes(rows, flt, u, d) ==
    (IF UniqueViolation(rows, u, d) THEN {"unique"}
     ELSE IF ForeignKeyViolation(u) THEN {"fk", "ok"}
     ELSE {"ok"})
    \cup (IF flt THEN {"storage"} ELSE {})

\* recordCheckIn without its try/catch: the error of the INSERT is thrown
CaughtNothing(err) == FALSE

\* catch (error) { ... }: the catch block of recordCheckIn takes every error
Caught(err) == err \in {"unique", "fk", "storage"}

\* ------------------------------------------------------------- the state

TypeOK ==
    /\ now \in Times
    /\ nextId \in Nat
    /\ faults \in BOOLEAN
    /\ calls \in 0..MaxCalls
    /\ pc \in [Procs -> {"idle", "ci_insert", "ci_update", "co_update", "done"}]
    /\ op \in [Procs -> {"none", "checkin", "checkout"}]
    /\ outcome \in [Procs -> {"none", "ok", "error"}]

InitCalls ==
    /\ pc = [p \in Procs |-> "idle"]
    /\ op = [p \in Procs |-> "none"]
    /\ userId = [p \in Procs |-> 0]
    /\ confidenceScore = [p \in Procs |-> 0]
    /\ today = [p \in Procs |-> 0]
    /\ insertOutcome = [p \in Procs |-> "none"]
    /\ outcome = [p \in Procs |-> "none"]

\* the display name of the user with id i
NameOf(i) == <<"user", i>>

\* a row of users_v1 (is_active BOOLEAN DEFAULT 1)
UserRow(i) == [id |-> i, name |-> NameOf(i), email |-> <<"mail", i>>,
               face_encoding |-> <<"encoding", i>>, is_active |-> TRUE]

\* no getAttendanceStats call has run
InitStats ==
    stats = [pc |-> "idle", today |-> 0, today2 |-> 0, total_users |-> 0,
             present_today |-> 0, total_checkins_today |-> 0,
             recent_checkins |-> <<>>]

\* no browser page is open
InitPage == page = [open |-> FALSE]

\* no matchFace call has run
InitMatch ==
    /\ probe = <<0, 0>>
    /\ candidates = <<>>
    /\ tolerance = 1
    /\ matchResult = [called |-> FALSE]

\* what a slot holds when it serves no request
NoRequest ==
    [kind |-> "none", stage |-> "idle", email |-> 0, images |-> 0, i |-> 0,
     knownFaces |-> {}, trace |-> <<>>, code |-> 0,
     result |-> [success |-> FALSE, user_id |-> NULL], thrown |-> "none",
     status |-> 0, success |-> FALSE, message |-> "none", user_id |-> NULL]

\* no request is being served and no face sample is stored
InitHttp ==
    /\ http = [p \in Procs |-> NoRequest]
    /\ response = [kind |-> "none"]
    /\ samples = {}

InitStore ==
    /\ now = 0
    /\ attendance = {}
    /\ nextId = 1
    /\ calls = 0
    /\ lastCheckIn = [k \in Keys |-> [n |-> 0, time |-> NULL, confidence |-> 0]]

\* the store executes every statement (it fails only on a constraint)
Init ==
    /\ InitStore /\ InitCalls /\ faults = FALSE
    /\ users = {UserRow(i) : i \in RegisteredIds}
    /\ scores = Confidences
    /\ InitStats /\ InitPage /\ InitMatch /\ InitHttp

\* a statement may also fail with a storage error, and callers may pass an
\* id that is not in users_v1
InitFault ==
    /\ InitStore /\ InitCalls /\ faults = TRUE
    /\ users = {UserRow(i) : i \in RegisteredIds}
    /\ scores = Confidences
    /\ InitStats /\ InitPage /\ InitMatch /\ InitHttp

\* ----------------------------------------------------------- the actions

Tick ==
    /\ now < MaxTime
    /\ now' = now + 1
    /\ UNCHANGED <<attendance, nextId, faults, calls, callVars,
                   lastCheckIn>>
    /\ UNCHANGED otherVars /\ Silent

\* a slot with no call in flight; a request is served in the lowest free slot
\* (the slots only name the calls in flight: which one a call gets does not
\* matter to it)
Free(p) == pc[p] \in {"idle", "done"}

Takes(p) == Free(p) /\ \A q \in Procs : q < p => ~Free(q)

\* recordCheckIn, line 61: const today = ...; then the INSERT is awaited
CheckInStart(p) ==
    /\ Takes(p)
    /\ calls < MaxCalls
    /\ \E u \in (IF faults THEN AllIds ELSE RegisteredIds), c \in scores :
          /\ userId' = [userId EXCEPT ![p] = u]
          /\ confidenceScore' = [confidenceScore EXCEPT ![p] = c]
    /\ today' = [today EXCEPT ![p] = DateOf(now)]
    /\ pc' = [pc EXCEPT ![p] = "ci_insert"]
    /\ op' = [op EXCEPT ![p] = "checkin"]
    /\ insertOutcome' = [insertOutcome EXCEPT ![p] = "none"]
    /\ outcome' = [outcome EXCEPT ![p] = "none"]
    /\ calls' = calls + 1
    /\ UNCHANGED <<now, attendance, nextId, faults, lastCheckIn>>
    /\ UNCHANGED otherVars /\ Silent

\* a recordCheckIn call returns: it is the last check-in of its key
NoteCheckIn(p) ==
    lastCheckIn' = [lastCheckIn EXCEPT ![<<userId[p], today[p]>>] =
                       [n |-> @.n + 1, time |-> now,
                        confidence |-> confidenceScore[p]]]

\* recordCheckIn, lines 64-69: the INSERT runs in the store
CheckInInsert(p) ==
    /\ pc[p] = "ci_insert"
    /\ \E res \in InsertOutcomes(attendance, faults,
                                 userId[p], today[p]) :
          /\ insertOutcome' = [insertOutcome EXCEPT ![p] = res]
          /\ IF res = "ok"
                THEN /\ attendance' = InsertRow(attendance, nextId, userId[p],
                                         today[p], confidenceScore[p], now)
                     /\ nextId' = nextId + 1
                     /\ pc' = [pc EXCEPT ![p] = "done"]
                     /\ outcome' = [outcome EXCEPT ![p] = "ok"]
                     /\ NoteCheckIn(p)
                ELSE /\ UNCHANGED <<attendance, nextId, lastCheckIn>>
                     /\ IF Caught(res)
                           THEN /\ pc' = [pc EXCEPT ![p] = "ci_update"]
                                /\ UNCHANGED outcome
                           ELSE /\ pc' = [pc EXCEPT ![p] = "done"]
                                /\ outcome' = [outcome EXCEPT ![p] = "error"]
    /\ UNCHANGED <<now, faults, calls, op, userId,
                   confidenceScore, today>>
    /\ UNCHANGED otherVars /\ Silent

\* recordCheckIn, lines 69-76: the UPDATE of the catch block runs in the store
CheckInUpdate(p) ==
    /\ pc[p] = "ci_update"
    /\ \E failed \in (IF faults THEN BOOLEAN ELSE {FALSE}) :
          IF failed
             THEN /\ outcome' = [outcome EXCEPT ![p] = "error"]
                  /\ UNCHANGED <<attendance, lastCheckIn>>
             ELSE /\ attendance' = UpdateCheckIn(attendance, userId[p],
                                      today[p], confidenceScore[p], now)
                  /\ outcome' = [outcome EXCEPT ![p] = "ok"]
                  /\ NoteCheckIn(p)
    /\ pc' = [pc EXCEPT ![p] = "done"]
    /\ UNCHANGED <<now, nextId, faults, calls, op, userId,
                   confidenceScore, today, insertOutcome>>
    /\ UNCHANGED otherVars /\ Silent

\* recordCheckOut, line 80: const today = ...; then the UPDATE is awaited
CheckOutStart(p) ==
    /\ Takes(p)
    /\ calls < MaxCalls
    /\ \E u \in (IF faults THEN AllIds ELSE RegisteredIds) :
          userId' = [userId EXCEPT ![p] = u]
    /\ confidenceScore' = [confidenceScore EXCEPT ![p] = 0]
    /\ today' = [today EXCEPT ![p] = DateOf(now)]
    /\ pc' = [pc EXCEPT ![p] = "co_update"]
    /\ op' = [op EXCEPT ![p] = "checkout"]
    /\ insertOutcome' = [insertOutcome EXCEPT ![p] = "none"]
    /\ outcome' = [outcome EXCEPT ![p] = "none"]
    /\ calls' = calls + 1
    /\ UNCHANGED <<now, attendance, nextId, faults, lastCheckIn>>
    /\ UNCHANGED otherVars /\ Silent

\* recordCheckOut, lines 82-86: the UPDATE runs in the store
CheckOutUpdate(p) ==
    /\ pc[p] = "co_update"
    /\ \E failed \in (IF faults THEN BOOLEAN ELSE {FALSE}) :
          IF failed
             THEN /\ outcome' = [outcome EXCEPT ![p] = "error"]
                  /\ UNCHANGED attendance
             ELSE /\ attendance' = UpdateCheckOut(attendance, userId[p],
                                                  today[p], now)
                  /\ outcome' = [outcome EXCEPT ![p] = "ok"]
    /\ pc' = [pc EXCEPT ![p] = "done"]
    /\ UNCHANGED <<now, nextId, faults, calls, op, userId,
                   confidenceScore, today, insertOutcome, lastCheckIn>>
    /\ UNCHANGED otherVars /\ Silent

Next ==
    \/ Tick
    \/ \E p \in Procs : CheckInStart(p)
    \/ \E p \in Procs : CheckInInsert(p)
    \/ \E p \in Procs : CheckInUpdate(p)
    \/ \E p \in Procs : CheckOutStart(p)
    \/ \E p \in Procs : CheckOutUpdate(p)

Spec == Init /\ [][Next]_vars

SpecFault == InitFault /\ [][Next]_vars

\* ------------------------------------------------- getAttendanceStats

\* SELECT COUNT(*) FROM users_v1 WHERE is_active = 1
CountActiveUsers(us) == Cardinality({u \in us : u.is_active})

\* a count of the users of all dates: the query without its WHERE date = ?
PresentAnyDay(rows, d) == Cardinality({r.user_id : r \in rows})

\* SELECT COUNT(DISTINCT user_id) FROM attendance_v1 WHERE date = ?
PresentToday(rows, d) ==
    Cardinality({r.user_id : r \in {x \in rows : x.date = d}})

\* SELECT COUNT(*) FROM attendance_v1 WHERE date = ?
CheckinsToday(rows, d) == Cardinality({r \in rows : r.date = d})

\* SELECT a.*, u.name as user_name FROM attendance_v1 a
\*   JOIN users_v1 u ON a.user_id = u.id WHERE a.date = ?
JoinToday(rows, us, d) ==
    {[id |-> r.id, user_id |-> r.user_id, user_name |-> u.name,
      check_in_time |-> r.check_in_time, check_out_time |-> r.check_out_time,
      date |-> r.date, confidence_score |-> r.confidence_score] :
        <<r, u>> \in {x \in rows \X us : x[1].date = d /\ x[1].user_id = x[2].id}}

\* ORDER BY a.check_in_time DESC: r comes before x.  SQL leaves the order of
\* rows with equal check_in_time open; tie is the direction the store takes
\* them in (by ascending or by descending id).
Before(r, x, tie) ==
    \/ r.check_in_time > x.check_in_time
    \/ /\ r.check_in_time = x.check_in_time
       /\ IF tie = "asc" THEN r.id <= x.id ELSE r.id >= x.id

RECURSIVE OrderByCheckInDesc(_, _)
OrderByCheckInDesc(S, tie) ==
    IF S = {} THEN <<>>
    ELSE LET first == CHOOSE r \in S : \A x \in S : Before(r, x, tie)
         IN  <<first>> \o OrderByCheckInDesc(S \ {first}, tie)

\* getTodayAttendance, lines 92-100
TodayAttendance(rows, us, d, tie) ==
    OrderByCheckInDesc(JoinToday(rows, us, d), tie)

\* the result without the slice
AllCheckins(list) == list

\* recentCheckins.slice(0, 10)
RecentCheckins(list) ==
    SubSeq(list, 1, IF Len(list) < RecentLimit THEN Len(list) ELSE RecentLimit)

\* getAttendanceStats, line 129: const today = ...; a request for the stats
\* arrives when no other one is in flight
StatsStart ==
    /\ stats.pc \in {"idle", "done"}
    /\ calls < MaxCalls
    /\ calls' = calls + 1
    /\ stats' = [pc |-> "q_users", today |-> DateOf(now), today2 |-> 0,
                 total_users |-> 0, present_today |-> 0,
                 total_checkins_today |-> 0, recent_checkins |-> <<>>]
    /\ UNCHANGED statsFrame

\* lines 132-135: the count of the active users runs in the store
StatsTotalUsers ==
    /\ stats.pc = "q_users"
    /\ stats' = [stats EXCEPT !.pc = "q_present",
                              !.total_users = CountActiveUsers(users)]
    /\ UNCHANGED <<calls, statsFrame>>

\* lines 138-142: the count of the users present today runs in the store
StatsPresentToday ==
    /\ stats.pc = "q_present"
    /\ stats' = [stats EXCEPT !.pc = "q_checkins",
                      !.present_today = PresentToday(attendance, stats.today)]
    /\ UNCHANGED <<calls, statsFrame>>

\* lines 145-149: the count of today's rows runs in the store
StatsCheckins ==
    /\ stats.pc = "q_checkins"
    /\ stats' = [stats EXCEPT !.pc = "recent_call",
               !.total_checkins_today = CheckinsToday(attendance, stats.today)]
    /\ UNCHANGED <<calls, statsFrame>>

\* line 152 and getTodayAttendance, line 90: const today = ... of its own
StatsRecentCall ==
    /\ stats.pc = "recent_call"
    /\ stats' = [stats EXCEPT !.pc = "q_recent", !.today2 = DateOf(now)]
    /\ UNCHANGED <<calls, statsFrame>>

\* getTodayAttendance, lines 92-100, runs in the store; lines 154-159
StatsRecentQuery ==
    /\ stats.pc = "q_recent"
    /\ \E tie \in {"asc", "desc"} :
          stats' = [stats EXCEPT !.pc = "done",
                       !.recent_checkins = RecentCheckins(
                          TodayAttendance(attendance, users, stats.today2, tie))]
    /\ UNCHANGED <<calls, statsFrame>>

\* the ledger with a getAttendanceStats call running beside its calls
NextStats ==
    \/ Tick
    \/ \E p \in Procs : CheckInStart(p)
    \/ \E p \in Procs : CheckInInsert(p)
    \/ \E p \in Procs : CheckInUpdate(p)
    \/ \E p \in Procs : CheckOutStart(p)
    \/ \E p \in Procs : CheckOutUpdate(p)
    \/ StatsStart
    \/ StatsTotalUsers
    \/ StatsPresentToday
    \/ StatsCheckins
    \/ StatsRecentCall
    \/ StatsRecentQuery

\* (the counts do not read confidence_score: the calls pass one score)
InitWithStats ==
    /\ InitStore /\ InitCalls /\ faults = FALSE
    /\ users = {UserRow(i) : i \in RegisteredIds}
    /\ scores = {90}
    /\ InitStats /\ InitPage /\ InitMatch /\ InitHttp

SpecStats == InitWithStats /\ [][NextStats]_vars

\* a day on which the first n users have checked in, each at one of the
\* times of the day
RecentUsers == 1..MaxRecentUsers

InitRecent ==
    /\ InitCalls /\ InitStats /\ InitPage /\ InitMatch /\ InitHttp /\ faults = FALSE
    /\ scores = {90}
    /\ now = TicksPerDay - 1
    /\ calls = 0
    /\ lastCheckIn = [k \in Keys |-> [n |-> 0, time |-> NULL, confidence |-> 0]]
    /\ \E n \in 0..MaxRecentUsers :
          /\ users = {UserRow(i) : i \in 1..n}
          /\ nextId = n + 1
          /\ \E t \in [1..n -> {0, TicksPerDay - 1}] :
                attendance = {[id |-> i, user_id |-> i, date |-> 0,
                               check_in_time |-> t[i], check_out_time |-> NULL,
                               confidence_score |-> 90] : i \in 1..n}

NextRecent ==
    \/ StatsStart
    \/ StatsTotalUsers
    \/ StatsPresentToday
    \/ StatsCheckins
    \/ StatsRecentCall
    \/ StatsRecentQuery

SpecRecent == InitRecent /\ [][NextRecent]_vars

\* -------------------------------------------------------------- matchFace
\* The Face Matcher: match(probe, candidates, tolerance).  Encodings are
\* vectors of a fixed dimensionality, here 2; the probes and the enrolled
\* encodings are taken on a grid where every Euclidean distance between a
\* probe and an enrolled encoding is a whole number (0, 3, 4 or 5), so that
\* distances and confidences are computed without rounding.

Probes == {0} \X {0, 4}
Encodings == {-3, 0, 3} \X {0, 4}
Tolerances == {4, 5}
CandidateIds == 1..MaxCandidates

\* the square root of a perfect square
Sqrt(n) == CHOOSE r \in 0..n : r * r = n

\* Euclidean distance over the fixed-dimensionality vectors
Distance(a, b) ==
    Sqrt((a[1] - b[1]) * (a[1] - b[1]) + (a[2] - b[2]) * (a[2] - b[2]))

\* (a tie keeps the candidate met first)
CloserKeepsFirst(p, best, c) ==
    IF Distance(p, c[2]) < Distance(p, best[2]) THEN c ELSE best

\* the better of the best candidate so far and the candidate c: minimum
\* distance, ties broken by lowest userId
Closer(p, best, c) ==
    IF \/ Distance(p, c[2]) < Distance(p, best[2])
       \/ /\ Distance(p, c[2]) = Distance(p, best[2])
          /\ c[1] < best[1]
    THEN c ELSE best

\* the candidate selected among a nonempty list
RECURSIVE BestCandidate(_, _)
BestCandidate(p, cands) ==
    IF Len(cands) = 1 THEN cands[1]
    ELSE Closer(p, BestCandidate(p, SubSeq(cands, 1, Len(cands) - 1)),
                cands[Len(cands)])

\* (the boundary itself is a no-match)
BelowTolerance(d, tol) == d < tol

\* a distance counts as a match unless it exceeds the tolerance
WithinTolerance(d, tol) == d <= tol

\* (the percentage is returned as computed)
NoClamp(x) == x

\* clamp01(x) * 100, on percents
Clamp01(x) == IF x < 0 THEN 0 ELSE IF x > 100 THEN 100 ELSE x

\* confidence = clamp01(1 - distance / tolerance) * 100
Confidence(d, tol) == Clamp01((100 * (tol - d)) \div tol)

matchFace(p, cands, tol) ==
    IF cands = <<>> THEN [called |-> TRUE, error |-> "NoEnrolledUsers"]
    ELSE LET best == BestCandidate(p, cands)
             d == Distance(p, best[2])
         IN  [called |-> TRUE, error |-> "none",
              matched |-> WithinTolerance(d, tol),
              userId |-> IF WithinTolerance(d, tol) THEN best[1] ELSE NULL,
              distance |-> d,
              confidence |-> Confidence(d, tol)]

\* lists of at most MaxCandidates enrolled encodings, one per user
CandidateLists ==
    UNION {{c \in [1..n -> CandidateIds \X Encodings] :
              \A i, j \in 1..n : i # j => c[i][1] # c[j][1]}
           : n \in 0..MaxCandidates}

\* a caller holds a probe, the enrolled encodings and a tolerance
InitMatchCall ==
    /\ InitStore /\ InitCalls /\ InitStats /\ InitPage /\ InitHttp /\ faults = FALSE
    /\ users = {UserRow(i) : i \in RegisteredIds}
    /\ scores = {90}
    /\ probe \in Probes
    /\ candidates \in CandidateLists
    /\ tolerance \in Tolerances
    /\ matchResult = [called |-> FALSE]

\* the call of matchFace
MatchFace ==
    /\ ~matchResult.called
    /\ matchResult' = matchFace(probe, candidates, tolerance)
    /\ UNCHANGED <<now, attendance, nextId, faults, calls, callVars,
                   lastCheckIn, users, scores, stats, probe, candidates,
                   tolerance, httpVars, page>>
    /\ Silent

NextMatch == MatchFace

SpecMatch == InitMatchCall /\ [][NextMatch]_vars

\* ------------------------------------------------------ the HTTP handlers
\* POST /api/attendance/checkin and /checkout (routes/attendance.ts) and
\* POST /api/users/register (routes/users.ts).  A request is served in a
\* slot; the handler runs up to its next await in one step.  The Python
\* service is an external process: what it prints and how it exits is not
\* decided by the handler.

RequestEmails == {1, 2}         \* the emails registration requests carry
EmailOf(e) == <<"mail", e>>

\* getAllUserEncodings: SELECT id, name, face_encoding ... WHERE is_active = 1
AllUserEncodings(us) == {u.id : u \in {x \in us : x.is_active}}

\* getUserByEmail: SELECT * ... WHERE email = ? AND is_active = 1
UserByEmail(us, e) == {u \in us : u.email = e /\ u.is_active}

\* email TEXT UNIQUE NOT NULL
EmailTaken(us, e) == \E u \in us : u.email = e

\* id INTEGER PRIMARY KEY AUTOINCREMENT of users_v1 (no row is ever deleted)
NextUserId(us) ==
    IF us = {} THEN 1
    ELSE 1 + (CHOOSE m \in {u.id : u \in us} : \A u \in us : u.id <= m)

\* (the request goes on without a known face)
NeverEmpty(faces) == FALSE

\* knownFaces.length === 0
NoKnownFaces(faces) == faces = {}

\* (the exit code is not looked at)
ExitIgnored(code) == FALSE

\* code !== 0
ExitedNonZero(code) == code # 0

\* (the success flag is not looked at)
IgnoresSuccess(r) == TRUE

\* recognitionResult.success
Succeeded(r) == r.success

\* what `recognize` may print, given the known faces
RecognitionResults(faces) ==
    {[success |-> s, user_id |-> u] :
        s \in BOOLEAN, u \in faces \cup {NULL}}

\* how a run of `recognize` may end
RecognizeOutputs(faces) ==
    {[code |-> c, result |-> r] :
        c \in {0, 1}, r \in RecognitionResults(faces)}

\* how a run of `encode` may end
EncodeOutputs == {[code |-> c, success |-> s] : c \in {0, 1}, s \in BOOLEAN}

\* a slot that serves no request; a request is served in the lowest one
Idle(p) == http[p].stage = "idle"

Serves(p) == Idle(p) /\ \A q \in Procs : q < p => ~Idle(q)

\* c.json(body, status)
Respond(r, st, ok, msg) ==
    [r EXCEPT !.stage = "responded", !.status = st, !.success = ok,
              !.message = msg]

\* the handler of slot p goes on as r: it awaits its next call, or it has
\* responded and the slot is free again
Continue(p, r) ==
    IF r.stage = "responded"
    THEN /\ response' = r
         /\ http' = [http EXCEPT ![p] = NoRequest]
    ELSE /\ http' = [http EXCEPT ![p] = r]
         /\ Silent

ImageCounts == 0..2             \* face_images.length of a registration

\* /checkin and /checkout, up to the run of `recognize`: the handler reads
\* the known faces and spawns `recognize` unless no face is known
AttendRequest(p) ==
    /\ Serves(p)
    /\ calls < MaxCalls
    /\ calls' = calls + 1
    /\ \E k \in {"checkin", "checkout"}, image_data \in BOOLEAN :
          LET r == [NoRequest EXCEPT !.kind = k]
              faces == AllUserEncodings(users)
          IN  Continue(p,
                 IF ~image_data
                 THEN Respond(r, 400, FALSE, "Image data is required")
                 ELSE IF NoKnownFaces(faces)
                 THEN Respond([r EXCEPT !.trace = <<"getAllUserEncodings">>],
                              400, FALSE, "No registered users found")
                 ELSE [r EXCEPT !.stage = "recognize", !.knownFaces = faces,
                                !.trace = <<"getAllUserEncodings",
                                            "recognize">>])
    /\ UNCHANGED <<now, attendance, nextId, faults, callVars, lastCheckIn,
                   users, scores, stats, matchVars, samples, page>>

\* `recognize` ends; the handler answers, or calls recordCheckIn or
\* recordCheckOut (which read `today` and await their first statement)
Recognize(p) ==
    /\ http[p].stage = "recognize"
    /\ \E out \in RecognizeOutputs(http[p].knownFaces), c \in scores :
          LET r == [http[p] EXCEPT !.code = out.code]
              parsed == [r EXCEPT !.result = out.result]
          IN
          IF ExitedNonZero(out.code)
          THEN /\ Continue(p, Respond(r, 500, FALSE,
                                      "Face recognition service error"))
               /\ UNCHANGED callVars
          ELSE IF ~Succeeded(out.result) \/ out.result.user_id = NULL
          THEN /\ Continue(p, Respond(parsed, 200, out.result.success,
                                      "no match"))
               /\ UNCHANGED callVars
          ELSE /\ Continue(p,
                     [parsed EXCEPT
                        !.stage = "record",
                        !.user_id = out.result.user_id,
                        !.trace = Append(@, IF http[p].kind = "checkin"
                                            THEN "recordCheckIn"
                                            ELSE "recordCheckOut")])
               /\ userId' = [userId EXCEPT ![p] = out.result.user_id]
               /\ confidenceScore' = [confidenceScore EXCEPT ![p] =
                     IF http[p].kind = "checkin" THEN c ELSE 0]
               /\ today' = [today EXCEPT ![p] = DateOf(now)]
               /\ pc' = [pc EXCEPT ![p] =
                     IF http[p].kind = "checkin" THEN "ci_insert"
                                                 ELSE "co_update"]
               /\ op' = [op EXCEPT ![p] = http[p].kind]
               /\ insertOutcome' = [insertOutcome EXCEPT ![p] = "none"]
               /\ outcome' = [outcome EXCEPT ![p] = "none"]
    /\ UNCHANGED <<now, attendance, nextId, faults, calls, lastCheckIn,
                   users, scores, stats, matchVars, samples, page>>

\* recordCheckIn or recordCheckOut has returned or thrown; the handler
\* answers and the call's frame is gone
AttendRespond(p) ==
    /\ http[p].stage = "record"
    /\ pc[p] = "done"
    /\ Continue(p,
          IF outcome[p] = "ok"
          THEN Respond(http[p], 200, TRUE, "recorded")
          ELSE Respond([http[p] EXCEPT !.thrown = "storage"], 500, FALSE,
                       "Failed to process"))
    /\ pc' = [pc EXCEPT ![p] = "idle"]
    /\ op' = [op EXCEPT ![p] = "none"]
    /\ userId' = [userId EXCEPT ![p] = 0]
    /\ confidenceScore' = [confidenceScore EXCEPT ![p] = 0]
    /\ today' = [today EXCEPT ![p] = 0]
    /\ insertOutcome' = [insertOutcome EXCEPT ![p] = "none"]
    /\ outcome' = [outcome EXCEPT ![p] = "none"]
    /\ UNCHANGED <<now, attendance, nextId, faults, calls,
                   lastCheckIn, users, scores, stats, matchVars, samples, page>>

\* /register, up to the run of `encode` for the first image: the handler
\* looks the email up and answers 409 if an active user has it
RegisterRequest(p) ==
    /\ Serves(p)
    /\ calls < MaxCalls
    /\ calls' = calls + 1
    /\ \E e \in RequestEmails, n \in ImageCounts :
          LET r == [NoRequest EXCEPT !.kind = "register", !.email = e,
                                     !.images = n]
          IN  Continue(p,
                 IF n = 0
                 THEN Respond(r, 400, FALSE,
                              "at least one face image is required")
                 ELSE IF UserByEmail(users, EmailOf(e)) # {}
                 THEN Respond([r EXCEPT !.trace = <<"getUserByEmail">>],
                              409, FALSE,
                              "User with this email already exists")
                 ELSE [r EXCEPT !.stage = "encode", !.i = 1,
                                !.trace = <<"getUserByEmail", "encode">>])
    /\ UNCHANGED <<now, attendance, nextId, faults, callVars, lastCheckIn,
                   users, scores, stats, matchVars, samples, page>>

\* `encode` of image i ends; the handler answers, spawns `encode` for the
\* next image, or calls createUser
Encode(p) ==
    /\ http[p].stage = "encode"
    /\ \E out \in EncodeOutputs :
          LET r == [http[p] EXCEPT !.code = out.code]
              parsed == [r EXCEPT !.result.success = out.success]
          IN  Continue(p,
                 IF ExitedNonZero(out.code)
                 THEN Respond(r, 500, FALSE, "Failed to process face image")
                 ELSE IF ~out.success
                 THEN Respond(parsed, 400, FALSE,
                              "Failed to extract face encoding")
                 ELSE IF http[p].i < http[p].images
                 THEN [parsed EXCEPT !.i = @ + 1,
                                     !.trace = Append(@, "encode")]
                 ELSE [parsed EXCEPT !.stage = "create", !.i = 0,
                                     !.trace = Append(@, "createUser")])
    /\ UNCHANGED <<now, attendance, nextId, faults, calls, callVars,
                   lastCheckIn, users, scores, stats, matchVars, samples, page>>

\* the INSERT of createUser runs in the store; if it throws, the handler's
\* catch answers, else the handler calls addFaceSample for the first image
CreateUser(p) ==
    /\ http[p].stage = "create"
    /\ IF EmailTaken(users, EmailOf(http[p].email))
       THEN /\ Continue(p, Respond([http[p] EXCEPT !.thrown = "unique"],
                                   500, FALSE, "Failed to register user"))
            /\ UNCHANGED users
       ELSE /\ users' = users \cup
                  {[id |-> NextUserId(users), name |-> NameOf(http[p].email),
                    email |-> EmailOf(http[p].email),
                    face_encoding |-> <<"encoding", 1>>,
                    is_active |-> TRUE]}
            /\ Continue(p,
                  [http[p] EXCEPT !.stage = "samples", !.i = 1,
                                  !.user_id = NextUserId(users),
                                  !.trace = Append(@, "addFaceSample")])
    /\ UNCHANGED <<now, attendance, nextId, faults, calls, callVars,
                   lastCheckIn, scores, stats, matchVars, samples, page>>

\* the INSERT of addFaceSample for image i runs in the store; the handler
\* calls it for the next image or answers (the rows are told apart by their
\* user and image; their id and created_at are left out)
AddFaceSample(p) ==
    /\ http[p].stage = "samples"
    /\ samples' = samples \cup
          {[user_id |-> http[p].user_id,
            image_data |-> <<"image", http[p].i>>,
            encoding_data |-> <<"encoding", http[p].i>>]}
    /\ Continue(p,
          IF http[p].i < http[p].images
          THEN [http[p] EXCEPT !.i = @ + 1,
                               !.trace = Append(@, "addFaceSample")]
          ELSE Respond(http[p], 200, TRUE, "User registered successfully"))
    /\ UNCHANGED <<now, attendance, nextId, faults, calls, callVars,
                   lastCheckIn, users, scores, stats, matchVars, page>>

NextHttp ==
    \/ \E p \in Procs : AttendRequest(p)
    \/ \E p \in Procs : Recognize(p)
    \/ \E p \in Procs : CheckInInsert(p)
    \/ \E p \in Procs : CheckInUpdate(p)
    \/ \E p \in Procs : CheckOutUpdate(p)
    \/ \E p \in Procs : AttendRespond(p)
    \/ \E p \in Procs : RegisterRequest(p)
    \/ \E p \in Procs : Encode(p)
    \/ \E p \in Procs : CreateUser(p)
    \/ \E p \in Procs : AddFaceSample(p)

\* the tables as the migrations leave them, or with one registered user
InitServer ==
    /\ InitStore /\ InitCalls /\ InitStats /\ InitPage /\ InitMatch /\ InitHttp
    /\ faults = FALSE
    /\ scores = {90}
    /\ users \in {{}, {UserRow(1)}}

SpecHttp == InitServer /\ [][NextHttp]_vars

\* ------------------------------------------------------- DELETE /users/:id
\* the ids a DELETE request names: users that may exist, or no number
DeleteIds == {1, 2, NULL}

\* users.delete("/:id"): parseInt, the isNaN check, and the response; the
\* handler awaits nothing and calls no query
DeleteUser(p) ==
    /\ Serves(p)
    /\ calls < MaxCalls
    /\ calls' = calls + 1
    /\ \E id \in DeleteIds :
          LET r == [NoRequest EXCEPT !.kind = "delete", !.user_id = id]
          IN  Continue(p,
                 IF id = NULL
                 THEN Respond(r, 400, FALSE, "Invalid user ID")
                 ELSE Respond(r, 200, TRUE,
                              "User deletion not implemented yet"))
    /\ UNCHANGED <<now, attendance, nextId, faults, callVars, lastCheckIn,
                   users, scores, stats, matchVars, samples, page>>

\* registrations and removals
NextUsers ==
    \/ \E p \in Procs : RegisterRequest(p)
    \/ \E p \in Procs : Encode(p)
    \/ \E p \in Procs : CreateUser(p)
    \/ \E p \in Procs : AddFaceSample(p)
    \/ \E p \in Procs : DeleteUser(p)

SpecUsers == InitServer /\ [][NextUsers]_vars

\* ------------------------------------------------- the faces that are matched
\* What /checkin and /checkout hand to `recognize`: the rows getAllUserEncodings
\* selects.  The users here carry encodings of the matcher's grid, and the
\* table may hold deactivated rows (is_active = 0).

\* (every row of users_v1 is selected)
AllFaces(us) ==
    {[id |-> u.id, name |-> u.name, face_encoding |-> u.face_encoding] :
        u \in us}

\* getAllUserEncodings: SELECT id, name, face_encoding FROM users_v1
\* WHERE is_active = 1
KnownFaces(us) ==
    {[id |-> u.id, name |-> u.name, face_encoding |-> u.face_encoding] :
        u \in {x \in us : x.is_active}}

\* the rows in the orders the SELECT may return them (it has no ORDER BY), as
\* the candidates of the matcher
FaceLists(faces) ==
    {[i \in 1..Cardinality(faces) |-> <<f[i].id, f[i].face_encoding>>] :
        f \in {g \in [1..Cardinality(faces) -> faces] :
                  \A i, j \in 1..Cardinality(faces) : i # j => g[i] # g[j]}}

\* tables of users_v1 with at most one row per id
UserTables ==
    {{[id |-> i, name |-> NameOf(i), email |-> EmailOf(i),
       face_encoding |-> t[i].enc, is_active |-> t[i].active] :
         i \in {j \in CandidateIds : t[j].present}} :
      t \in [CandidateIds ->
               [present : BOOLEAN, active : BOOLEAN, enc : Encodings]]}

\* tables of face_samples_v1: none, or one sample of user 1 at the probe
SampleTables ==
    {{}} \cup {{[user_id |-> 1, image_data |-> <<"image", 1>>,
                 encoding_data |-> e]} : e \in Probes}

InitKnown ==
    /\ InitStore /\ InitCalls /\ InitStats /\ InitPage /\ faults = FALSE
    /\ http = [p \in Procs |-> NoRequest]
    /\ response = [kind |-> "none"]
    /\ scores = {90}
    /\ users \in UserTables
    /\ samples \in SampleTables
    /\ probe \in Probes
    /\ tolerance \in Tolerances
    /\ candidates = <<>>
    /\ matchResult = [called |-> FALSE]

\* a check-in or check-out request reads the known faces and, unless there
\* is none, has them matched against the probe of its image
RecognizeKnown ==
    /\ ~matchResult.called
    /\ \E c \in FaceLists(KnownFaces(users)) :
          /\ candidates' = c
          /\ matchResult' = matchFace(probe, c, tolerance)
    /\ UNCHANGED <<now, attendance, nextId, faults, calls, callVars,
                   lastCheckIn, users, scores, stats, probe, tolerance,
                   httpVars, page>>
    /\ Silent

NextKnown == RecognizeKnown

SpecKnown == InitKnown /\ [][NextKnown]_vars

\* ------------------------------------------------------- the browser page
\* The page of app.get("/"): the AttendanceSystem script (the class in the
\* page's script) and the App status component.  The server's stats are a
\* version number that grows with every request that changes them; a stats
\* fetch returns the version the server has when it answers.

\* the rest of the system does not move while the page is looked at
pageFrame ==
    <<now, attendance, nextId, faults, callVars, lastCheckIn, users, scores,
      stats, matchVars, httpVars>>

\* the page as the browser got it: window.__INITIAL_DATA__ holds the stats of
\* the moment the page was served, or is missing
OpenPage(v, injected) ==
    [open |-> TRUE, server |-> v,
     initialData |-> IF injected THEN v ELSE NULL,
     constructed |-> FALSE, shown |-> NULL, isProcessing |-> FALSE,
     statsFetches |-> 0, lastSuccess |-> NULL, refreshed |-> FALSE,
     mounted |-> FALSE, closureStats |-> NULL, appStats |-> NULL,
     appFetches |-> 0, ticks |-> 0]

InitBrowser ==
    /\ InitStore /\ InitCalls /\ InitStats /\ InitMatch /\ InitHttp
    /\ faults = FALSE
    /\ scores = {90}
    /\ users = {UserRow(i) : i \in RegisteredIds}
    /\ \E v \in {0, 1}, injected \in BOOLEAN : page = OpenPage(v, injected)

\* updateStats(stats): the three counters of the page show stats
UpdateStats(pg, v) ==
    [pg EXCEPT !.shown = v, !.refreshed = (pg.lastSuccess # NULL)]

\* AttendanceSystem.loadInitialData, up to its await
LoadInitialData(pg) ==
    IF pg.initialData # NULL
    THEN UpdateStats(pg, pg.initialData)
    ELSE [pg EXCEPT !.statsFetches = @ + 1]

\* App's loadStats as the effect of the first render holds it, up to its
\* await: its `stats` is the state of that render
LoadStats(pg) ==
    IF pg.initialData # NULL /\ pg.closureStats = NULL
    THEN [pg EXCEPT !.appStats = pg.initialData]
    ELSE [pg EXCEPT !.appFetches = @ + 1]

\* new AttendanceSystem(): the constructor calls loadInitialData
Construct ==
    /\ ~page.constructed
    /\ page' = LoadInitialData([page EXCEPT !.constructed = TRUE])
    /\ UNCHANGED <<calls, pageFrame>> /\ Silent

\* processAttendance or registerUser, up to the await of its fetch
Submit ==
    /\ page.constructed /\ ~page.isProcessing
    /\ calls < MaxCalls
    /\ calls' = calls + 1
    /\ page' = [page EXCEPT !.isProcessing = TRUE]
    /\ UNCHANGED pageFrame /\ Silent

\* the request is answered; on success (which changed the server's stats)
\* the page calls loadInitialData to refresh its stats
RequestReturns ==
    /\ page.isProcessing
    /\ \E success \in BOOLEAN :
          page' =
             IF success
             THEN LoadInitialData([page EXCEPT !.isProcessing = FALSE,
                                               !.server = @ + 1,
                                               !.lastSuccess = page.server + 1])
             ELSE [page EXCEPT !.isProcessing = FALSE]
    /\ UNCHANGED <<calls, pageFrame>> /\ Silent

\* the fetch of loadInitialData is answered
StatsFetchReturns ==
    /\ page.statsFetches > 0
    /\ \E success \in BOOLEAN :
          page' =
             IF success
             THEN UpdateStats([page EXCEPT !.statsFetches = @ - 1],
                              page.server)
             ELSE [page EXCEPT !.statsFetches = @ - 1]
    /\ UNCHANGED <<calls, pageFrame>> /\ Silent

\* App's first render and its effect: loadStats() and setInterval
Mount ==
    /\ ~page.mounted
    /\ page' = LoadStats([page EXCEPT !.mounted = TRUE,
                                      !.closureStats = page.appStats])
    /\ UNCHANGED <<calls, pageFrame>> /\ Silent

\* 30 seconds have passed: the interval calls the loadStats it was given
IntervalTick ==
    /\ page.mounted
    /\ calls < MaxCalls
    /\ calls' = calls + 1
    /\ page' = LoadStats([page EXCEPT !.ticks = @ + 1])
    /\ UNCHANGED pageFrame /\ Silent

\* the fetch of loadStats is answered
AppFetchReturns ==
    /\ page.appFetches > 0
    /\ \E success \in BOOLEAN :
          page' =
             IF success
             THEN [page EXCEPT !.appFetches = @ - 1, !.appStats = page.server]
             ELSE [page EXCEPT !.appFetches = @ - 1]
    /\ UNCHANGED <<calls, pageFrame>> /\ Silent

\* a request of another client changes the server's stats
OtherClient ==
    /\ calls < MaxCalls
    /\ calls' = calls + 1
    /\ page' = [page EXCEPT !.server = @ + 1]
    /\ UNCHANGED pageFrame /\ Silent

NextBrowser ==
    \/ Construct
    \/ Submit
    \/ RequestReturns
    \/ StatsFetchReturns
    \/ Mount
    \/ IntervalTick
    \/ AppFetchReturns
    \/ OtherClient

SpecBrowser == InitBrowser /\ [][NextBrowser]_vars

\* ------------------------------------------------------------ the claims

\* the key (userId, today) a call works on
KeyRows(rows, p) == RowsFor(rows, userId[p], today[p])

\* the step in which call p of operation o returns or throws
Completes(p, o) == op[p] = o /\ pc[p] # "done" /\ pc'[p] = "done"

\* C1: in every reachable state at most one row of attendance_v1 exists for
\* each (user_id, date), whatever calls ran and however they interleaved.
C1_OneRowPerKey ==
    \A k \in Keys : Cardinality(RowsFor(attendance, k[1], k[2])) <= 1

\* two recordCheckIn calls returned for one key, and one row is there
C1_Witness ==
    \E k \in Keys : /\ lastCheckIn[k].n >= 2
                     /\ Cardinality(RowsFor(attendance, k[1], k[2])) = 1

\* C2: of two recordCheckIn calls in flight for the same (userId, today) at
\* most one has its INSERT accepted; a call whose INSERT was rejected by the
\* uniqueness constraint goes on to the UPDATE and returns without an error;
\* when both have ended exactly one row exists for the key.
C2_ConcurrentCheckIns ==
    \A p, q \in Procs :
        (/\ p # q
         /\ op[p] = "checkin" /\ op[q] = "checkin"
         /\ userId[p] = userId[q] /\ today[p] = today[q])
        => /\ ~(insertOutcome[p] = "ok" /\ insertOutcome[q] = "ok")
           /\ insertOutcome[p] = "unique" => pc[p] \in {"ci_update", "done"}
           /\ (pc[p] = "done" /\ insertOutcome[p] = "unique")
                  => outcome[p] = "ok"
           /\ (pc[p] = "done" /\ pc[q] = "done")
                  => /\ outcome[p] = "ok" /\ outcome[q] = "ok"
                     /\ Cardinality(KeyRows(attendance, p)) = 1

\* both calls started before either INSERT ran; one inserted, the other was
\* rejected and has returned
C2_Witness ==
    \E p, q \in Procs :
        /\ p # q
        /\ op[p] = "checkin" /\ op[q] = "checkin"
        /\ userId[p] = userId[q] /\ today[p] = today[q]
        /\ pc[p] = "done" /\ pc[q] = "done"
        /\ insertOutcome[p] = "ok" /\ insertOutcome[q] = "unique"
        /\ calls = 2 /\ attendance # {}

\* C3 (as stated): every row whose check_out_time is set has a
\* check_out_time that is not earlier than its check_in_time.
C3_CheckOutNotBeforeCheckIn ==
    \A r \in attendance :
        r.check_out_time # NULL => r.check_out_time >= r.check_in_time

\* C3 (amended): every row whose check_out_time is set has a check_out_time
\* that is not earlier than its check_in_time, unless a later recordCheckIn
\* of the same (user, day) refreshed check_in_time after the check-out was
\* stored: that check-in keeps the stored check_out_time.
C3_CheckOutNotBeforeCheckInUnlessRefreshed ==
    \A r \in attendance :
        r.check_out_time # NULL
        => \/ r.check_out_time >= r.check_in_time
           \/ /\ lastCheckIn[<<r.user_id, r.date>>].n >= 2
              /\ lastCheckIn[<<r.user_id, r.date>>].time = r.check_in_time

\* a check-out was stored later than the check-in of its row
C3_Witness ==
    \E r \in attendance :
        r.check_out_time # NULL /\ r.check_out_time > r.check_in_time

\* C4: a recordCheckIn call whose statement runs when no row exists for
\* (userId, today) adds exactly one row, with that key, check_in_time = now,
\* the given confidence_score and check_out_time unset, and returns.
C4_CheckInCreates ==
    [][\A p \in Procs :
          (Completes(p, "checkin") /\ KeyRows(attendance, p) = {})
          => /\ outcome'[p] = "ok"
             /\ \E r \in attendance' :
                   /\ r \notin attendance
                   /\ attendance' = attendance \cup {r}
                   /\ r.user_id = userId[p] /\ r.date = today[p]
                   /\ r.check_in_time = now
                   /\ r.confidence_score = confidenceScore[p]
                   /\ r.check_out_time = NULL]_vars

\* a call has just created the row of its key, later than the start of the day
C4_Witness ==
    \E p \in Procs :
        /\ pc[p] = "done" /\ op[p] = "checkin" /\ insertOutcome[p] = "ok"
        /\ \E r \in KeyRows(attendance, p) :
              /\ r.check_in_time = now /\ now > r.date * TicksPerDay
              /\ r.confidence_score = confidenceScore[p]
              /\ r.check_out_time = NULL

\* C5: a recordCheckIn call whose statement runs when a row exists for
\* (userId, today), checked out or not, sets the row's check_in_time to now
\* and its confidence_score to the given value, and leaves check_out_time
\* (and every other row) as it was.
C5_CheckInOverwrites ==
    [][\A p \in Procs :
          (Completes(p, "checkin") /\ KeyRows(attendance, p) # {})
          => /\ outcome'[p] = "ok"
             /\ attendance' \ KeyRows(attendance', p)
                   = attendance \ KeyRows(attendance, p)
             /\ Cardinality(KeyRows(attendance', p))
                   = Cardinality(KeyRows(attendance, p))
             /\ \A r \in KeyRows(attendance, p) :
                   \E s \in KeyRows(attendance', p) :
                      /\ s.id = r.id
                      /\ s.check_in_time = now
                      /\ s.confidence_score = confidenceScore[p]
                      /\ s.check_out_time = r.check_out_time]_vars

\* a call has just refreshed a row that was checked out before
C5_Witness ==
    \E p \in Procs :
        /\ pc[p] = "done" /\ op[p] = "checkin" /\ insertOutcome[p] = "unique"
        /\ \E r \in KeyRows(attendance, p) :
              /\ r.check_out_time # NULL
              /\ r.check_in_time = now
              /\ r.confidence_score = confidenceScore[p]

\* C6: after N >= 1 recordCheckIn calls of one user on one day, exactly one
\* row exists for that (user, day), and its check_in_time and
\* confidence_score are those of the last of the calls.
C6_LastCheckInWins ==
    \A k \in Keys :
        lastCheckIn[k].n >= 1
        => /\ Cardinality(RowsFor(attendance, k[1], k[2])) = 1
           /\ \A r \in RowsFor(attendance, k[1], k[2]) :
                 /\ r.check_in_time = lastCheckIn[k].time
                 /\ r.confidence_score = lastCheckIn[k].confidence

\* Scenario C: recordCheckIn(U, 90) then, later, recordCheckIn(U, 95)
C6_Witness ==
    \E k \in Keys :
        /\ lastCheckIn[k].n = 2
        /\ lastCheckIn[k].confidence = 95
        /\ \E r \in RowsFor(attendance, k[1], k[2]) :
              /\ r.confidence_score = 95
              /\ r.check_in_time > k[2] * TicksPerDay

\* C7: a check_out_time is stored only by a recordCheckOut call of the row's
\* (user, day), with the value now, and only on a row whose check_out_time
\* is unset; a recordCheckOut on such a row stores it; once stored, no later
\* step changes it.
C7_FirstCheckOutWins ==
    [][/\ \A r \in attendance : \A s \in attendance' :
             (s.id = r.id /\ s.check_out_time # r.check_out_time)
             => /\ r.check_out_time = NULL
                /\ s.check_out_time = now
                /\ \E p \in Procs : /\ Completes(p, "checkout")
                                     /\ userId[p] = r.user_id
                                     /\ today[p] = r.date
       /\ \A p \in Procs :
             Completes(p, "checkout")
             => \A r \in KeyRows(attendance, p) :
                   r.check_out_time = NULL
                   => \E s \in attendance' :
                         s.id = r.id /\ s.check_out_time = now]_vars

\* two recordCheckOut calls of one key have returned and time has passed
\* since the check-out was stored: the later call left it as it was
C7_Witness ==
    \E p, q \in Procs :
        /\ p # q
        /\ pc[p] = "done" /\ op[p] = "checkout" /\ outcome[p] = "ok"
        /\ pc[q] = "done" /\ op[q] = "checkout" /\ outcome[q] = "ok"
        /\ userId[p] = userId[q] /\ today[p] = today[q]
        /\ \E r \in KeyRows(attendance, p) :
              r.check_out_time # NULL /\ r.check_out_time < now

\* C8: a recordCheckOut call whose statement runs when no row exists for
\* (userId, today) changes nothing in the table and returns without an error.
C8_CheckOutWithoutRow ==
    [][\A p \in Procs :
          (Completes(p, "checkout") /\ KeyRows(attendance, p) = {})
          => /\ attendance' = attendance
             /\ nextId' = nextId
             /\ outcome'[p] = "ok"]_vars

\* Scenario D: a recordCheckOut returned and its key has no row, while other
\* rows exist
C8_Witness ==
    \E p \in Procs :
        /\ pc[p] = "done" /\ op[p] = "checkout" /\ outcome[p] = "ok"
        /\ KeyRows(attendance, p) = {}
        /\ attendance # {}

\* C9: a recordCheckIn call whose INSERT failed for another reason than the
\* (user_id, date) uniqueness conflict (a foreign key violation of an
\* unknown userId, a storage failure) ends with an error for its caller.
C9_OtherInsertFailuresAreReported ==
    \A p \in Procs :
        (pc[p] = "done" /\ insertOutcome[p] \in {"fk", "storage"})
        => outcome[p] = "error"

\* C10: a row of attendance_v1 is there in every later state, with the same
\* key, and a stored check_out_time never becomes unset again.
C10_RowsAreKept ==
    [][\A r \in attendance :
          \E s \in attendance' :
             /\ s.id = r.id /\ s.user_id = r.user_id /\ s.date = r.date
             /\ (r.check_out_time # NULL => s.check_out_time # NULL)]_vars

\* a checked-out row went through a later check-in of its key and is still
\* there, checked out, on the next day
C10_Witness ==
    \E r \in attendance :
        /\ r.check_out_time # NULL
        /\ r.check_in_time > r.check_out_time
        /\ DateOf(now) > r.date

\* C11: the present_today that getAttendanceStats reads is the number of
\* distinct users who have checked in on its `today`, however many
\* recordCheckIn and recordCheckOut calls each of them made; it is returned
\* as read.
C11_PresentTodayCountsUsers ==
    [][/\ (stats.pc = "q_present" /\ stats'.pc = "q_checkins")
          => stats'.present_today =
                Cardinality({u \in AllIds :
                                lastCheckIn[<<u, stats.today>>].n >= 1})
       /\ (stats.pc \in {"q_checkins", "recent_call", "q_recent"}
           /\ stats'.pc # "q_users")
          => stats'.present_today = stats.present_today]_vars

\* the count was read as 1 and the one user present has checked in twice,
\* all calls having ended
C11_Witness ==
    /\ stats.pc = "q_checkins"
    /\ stats.present_today = 1
    /\ \A p \in Procs : pc[p] = "done"
    /\ \E u \in RegisteredIds : lastCheckIn[<<u, stats.today>>].n = 2

\* C12: in every result of getAttendanceStats total_checkins_today equals
\* present_today, also when recordCheckIn calls run between its queries.
C12_CheckinsEqualPresent ==
    stats.pc \in {"recent_call", "q_recent", "done"}
    => stats.total_checkins_today = stats.present_today

\* the rows of attendance_v1 dated as the recent check-ins were asked for
RowsOfToday2 == {r \in attendance : r.date = stats.today2}

CandidateDistances ==
    {Distance(probe, candidates[i][2]) : i \in 1..Len(candidates)}

\* the minimal distance of a candidate to the probe
MinDistance ==
    CHOOSE m \in CandidateDistances : \A d \in CandidateDistances : m <= d

\* the lowest userId among the candidates at the minimal distance
Winner ==
    LET ids == {candidates[i][1] : i \in
                  {j \in 1..Len(candidates) :
                      Distance(probe, candidates[j][2]) = MinDistance}}
    IN  CHOOSE u \in ids : \A v \in ids : u <= v

\* the same candidates in every order
Reorderings ==
    {[i \in 1..Len(candidates) |-> candidates[f[i]]] :
        f \in Permutations(1..Len(candidates))}

\* a matchFace call on a nonempty candidate list has returned
Matched == matchResult.called /\ candidates # <<>>

\* C14: matchFace on a nonempty candidate list selects the candidate at the
\* globally minimal Euclidean distance, the lowest userId among those at the
\* minimum, and returns the same result for the candidates in any order.
C14_SelectsClosestLowestId ==
    Matched =>
        /\ matchResult.distance = MinDistance
        /\ matchResult.matched => matchResult.userId = Winner
        /\ \A c \in Reorderings :
              matchFace(probe, c, tolerance) = matchResult

\* two candidates tie at the minimum, the higher userId comes first in the
\* list, and the lower one was selected
C14_Witness ==
    /\ Matched /\ Len(candidates) = 2
    /\ Distance(probe, candidates[1][2]) = Distance(probe, candidates[2][2])
    /\ candidates[1][2] # candidates[2][2]
    /\ candidates[1][1] > candidates[2][1]
    /\ matchResult.matched
    /\ matchResult.userId = candidates[2][1]

C17_ConfidenceLinearClamped ==
    Matched =>
        LET d == matchResult.distance
            c == matchResult.confidence
        IN  /\ c \in 0..100
            /\ d <= tolerance => c * tolerance = 100 * (tolerance - d)
            /\ d > tolerance => c = 0
            /\ d = 0 => c = 100
            /\ d = tolerance => c = 0
            /\ \A p \in Probes, e \in Encodings :
                  Distance(p, e) >= d => Confidence(Distance(p, e), tolerance) <= c

\* a match strictly between the probe and the tolerance boundary
C17_Witness ==
    /\ Matched /\ matchResult.matched
    /\ matchResult.distance > 0 /\ matchResult.distance < tolerance
    /\ matchResult.confidence \in 1..99

\* the persisted relations Users, AttendanceRecords and FaceSamples
store == <<users, attendance, samples>>

\* the calls of a handler that write to the store
WritingCalls == {"recordCheckIn", "recordCheckOut", "createUser",
                 "addFaceSample"}

\* the request r has made no call that writes to the store
NoWritingCall(r) == \A i \in 1..Len(r.trace) : r.trace[i] \notin WritingCalls

\* how many times the request r has spawned the Python service
Spawned(r) ==
    Cardinality({i \in 1..Len(r.trace) : r.trace[i] \in {"recognize", "encode"}})

\* a step answers a check-in or check-out request
AttendAnswered == response'.kind \in {"checkin", "checkout"}

\* a step changes the store only as a statement of a writing call that a
\* request in flight has made
WritesAreOfCalls ==
    /\ attendance' # attendance =>
          \E p \in Procs : http[p].stage = "record" /\ pc'[p] # pc[p]
    /\ users' # users =>
          \E p \in Procs : http[p].stage = "create" /\ http'[p] # http[p]
    /\ samples' # samples =>
          \E p \in Procs : http[p].stage = "samples"

\* C16: when no active user has an encoding, a check-in or check-out request
\* is answered with a failure, without a run of `recognize` and without a
\* call that writes; the step that answers leaves the store as it is.
C16_NoEnrolledUsers ==
    [][/\ WritesAreOfCalls
       /\ AllUserEncodings(users) = {} =>
             /\ \A p \in Procs : http'[p].stage = "recognize"
                                    => http[p].stage = "recognize"
             /\ AttendAnswered =>
                   /\ ~response'.success /\ response'.status = 400
                   /\ Spawned(response') = 0
                   /\ NoWritingCall(response')
                   /\ store' = store
       /\ (AttendAnswered
           /\ response'.message = "No registered users found") =>
             /\ AllUserEncodings(users) = {}
             /\ response'.trace = <<"getAllUserEncodings">>]_vars

\* a check-out request was answered that no user is registered
C16_Witness ==
    /\ response.kind = "checkout"
    /\ response.message = "No registered users found"
    /\ response.status = 400
    /\ users = {} /\ attendance = {}

\* C18: a check-in or check-out request whose recognition gives no match
\* (success = false, or no user_id) makes no call that writes, and the step
\* that answers it leaves Users, AttendanceRecords and FaceSamples as they
\* are; only a request with a match calls the ledger.
C18_NoMatchWritesNothing ==
    [][/\ WritesAreOfCalls
       /\ \A p \in Procs :
             (http'[p].stage = "record" /\ http[p].stage # "record") =>
                http'[p].result.success /\ http'[p].result.user_id # NULL
       /\ (/\ AttendAnswered
           /\ Spawned(response') = 1
           /\ response'.code = 0
           /\ ~response'.result.success \/ response'.result.user_id = NULL)
          => /\ NoWritingCall(response')
             /\ store' = store]_vars

\* `recognize` named a known user but reported no success, and the request
\* was answered with that result
C18_Witness ==
    /\ response.kind = "checkin"
    /\ response.message = "no match"
    /\ ~response.result.success
    /\ response.result.user_id \in {u.id : u \in users}

\* C19: when the Python service exits non-zero the request is answered with
\* an error by that very step: no further run is spawned (each image and
\* each recognition is run once), no call that writes has been or will be
\* made by the request, and the step leaves the store as it is.
C19_ServiceFailureIsTerminal ==
    [][/\ WritesAreOfCalls
       /\ \A p \in Procs :
             /\ http'[p].stage # "idle" => http'[p].code = 0
             /\ (http[p].stage \in {"recognize", "encode"}
                 /\ http'[p] # http[p] /\ http'[p].stage # "idle")
                => Spawned(http'[p]) <= Spawned(http[p]) + 1
       /\ (response'.kind # "none" /\ response'.code # 0) =>
             /\ ~response'.success /\ response'.status = 500
             /\ NoWritingCall(response')
             /\ response'.trace[Len(response'.trace)]
                   \in {"recognize", "encode"}
             /\ Spawned(response') =
                   (IF response'.kind = "register" THEN response'.i ELSE 1)
             /\ store' = store]_vars

\* `encode` exited non-zero on the second image of a registration
C19_Witness ==
    /\ response.kind = "register"
    /\ response.code # 0
    /\ response.i = 2
    /\ response.status = 500

\* C20: no two active users share an email, and a registration that is
\* rejected because a user already has its email is answered as a duplicate
\* enrollment (409) and creates no user, also when the user was created by
\* a concurrent registration.
C20_DuplicateEmailRejected ==
    /\ \A u, v \in users :
          (u.is_active /\ v.is_active /\ u.email = v.email) => u = v
    /\ (response.kind = "register" /\ response.thrown = "unique") =>
          /\ response.status = 409
          /\ response.message = "User with this email already exists"

\* C21: after a DELETE /api/users/:id of an existing user that reports
\* success, the user's row exists with is_active false, the user is not
\* among the active user encodings, and total_users does not count it.
C21_RemovalDeactivates ==
    (/\ response.kind = "delete" /\ response.success
     /\ \E u \in users : u.id = response.user_id)
    => /\ \E u \in users : u.id = response.user_id /\ ~u.is_active
       /\ response.user_id \notin AllUserEncodings(users)
       /\ CountActiveUsers(users) < Cardinality(users)

\* the image payloads that registration requests submit
SubmittedImages == {<<"image", i>> : i \in ImageCounts}

\* C22: no raw facial image is stored: no column of face_samples_v1 or of
\* users_v1 holds an image payload that a request submitted.
C22_NoRawImageStored ==
    /\ \A s \in samples : /\ s.image_data \notin SubmittedImages
                           /\ s.encoding_data \notin SubmittedImages
    /\ \A u \in users : u.face_encoding \notin SubmittedImages

\* the primary encodings of the active users, in the order of their ids
RECURSIVE ActiveById(_)
ActiveById(us) ==
    LET act == {u \in us : u.is_active}
    IN  IF act = {} THEN <<>>
        ELSE LET last == CHOOSE u \in act : \A v \in act : v.id <= u.id
             IN  Append(ActiveById(us \ {last}),
                        <<last.id, last.face_encoding>>)

C24_RefreshShowsServerStats ==
    (page.open /\ page.refreshed)
        => (page.shown # NULL /\ page.shown >= page.lastSuccess)

\* C25: every tick of the status component's 30 second interval starts a
\* fetch of /api/attendance/stats, also when the page was served with
\* injected initial data.
C25_TickFetchesStats ==
    [][(page.open /\ page'.ticks # page.ticks)
         => page'.appFetches = page.appFetches + 1]_vars

\* C26: whenever the check-out endpoint answers success ("Check-out recorded")
\* for a user, the table holds a record of that user and today with its
\* check-out time set.
C26_CheckOutSuccessHasRecord ==
    (/\ response.kind = "checkout"
     /\ response.success
     /\ response.message = "recorded")
    => \E r \in attendance :
          /\ r.user_id = response.user_id
          /\ r.date = DateOf(now)
          /\ r.check_out_time # NULL

\* C27: a step of recordCheckIn(U, c) or recordCheckOut(U) adds or changes
\* only a record keyed (U, today) of that call: the records of other users
\* and the records of U on other dates stay as they are, so a record left
\* without check-out on an earlier day is not closed by a later day's call.
C27_OnlyTodaysRecordChanges ==
    [][\A r \in attendance \cup attendance' :
          (r \notin attendance \/ r \notin attendance')
             => \E p \in Procs : /\ pc[p] # pc'[p]
                                 /\ r.user_id = userId[p]
                                 /\ r.date = today[p]]_vars

\* a check-out of a later day has run for a user whose record of an earlier
\* day is still without check-out
C27_Witness ==
    \E p \in Procs :
       /\ pc[p] = "done" /\ op[p] = "checkout" /\ outcome[p] = "ok"
       /\ \E r \in attendance : /\ r.user_id = userId[p]
                                /\ r.date < today[p]
                                /\ r.check_out_time = NULL

\* C28: the calendar date of every record's check-in time is the record's
\* date, also when midnight passes between recordCheckIn reading `today` and
\* the store stamping CURRENT_TIMESTAMP (in the INSERT or in the UPDATE).
C28_CheckInTimeOnRecordDate ==
    \A r \in attendance : DateOf(r.check_in_time) = r.date

\* the face samples stored for user u
SamplesOf(u) == {s \in samples : s.user_id = u}

\* C29: registration is all or nothing: in every reachable state a user
\* that a registration has created has one face sample for each image
\* submitted with it, and a registration that answers failure has created
\* no user.
C29_RegistrationAllOrNothing ==
    /\ \A p \in Procs :
          (http[p].kind = "register" /\ http[p].user_id # NULL)
             => Cardinality(SamplesOf(http[p].user_id)) = http[p].images
    /\ (response.kind = "register" /\ response.success)
          => Cardinality(SamplesOf(response.user_id)) = response.images
    /\ (response.kind = "register" /\ ~response.success)
          => response.user_id = NULL

====
